---- MODULE Spec2Model ----
(***************************************************************************)
(* Model of the voice-call client of HomeApplianceService:                 *)
(*   src/services/geminiService.ts  GeminiLiveService (connect, inbound    *)
(*                                  message handling, playback scheduling, *)
(*                                  disconnect)                            *)
(*   src/unnamed/part_001           App (handleStartCall, handleEndCall,   *)
(*                                  the transcript kept in messages)       *)
(*                                                                         *)
(* The runtime is single-threaded: each action below is one run-to-        *)
(* completion piece of a handler, from its entry (or the resumption of an  *)
(* await) to its next await (or its end).                                  *)
(*                                                                         *)
(* Time is counted in output samples (1/24000 s); the device clock is      *)
(* outputAudioContext.currentTime.                                         *)
(***************************************************************************)
EXTENDS Integers, Sequences, FiniteSets, TLC

(* ------------------------------ bounds --------------------------------- *)

\* number of inbound messages delivered in one session
MaxMsgs == 3

\* largest value of the device clock
MaxClock == 1

\* number of times the End Call handler is entered
MaxDisconnects == 2

\* longest audio segment of a message, in samples
MaxDur == 1

\* number of blocks the capture pipeline delivers in one session
MaxFrames == 2

\* byte lengths of the inline audio of a message: 0 = the message has no audio,
\* 1 = an odd number of bytes, 2 * d = d whole 16-bit samples
AudioLens == {0, 1} \cup {2 * d : d \in 1..MaxDur}

(* ------------------------------ state ---------------------------------- *)

VARIABLES
  connectionState,     \* App: useState<ConnectionState>
  serviceRef,          \* App: serviceRef.current # null
  pcConnect,           \* position of the connect() call
  session,             \* this.session # null
  chan,                \* the remote channel opened by ai.live.connect
  closeReq,            \* session.then(s => s.close()) has been registered
  inputAudioContext,   \* this.inputAudioContext # null
  outputAudioContext,  \* this.outputAudioContext # null
  outputNode,          \* this.outputNode # null
  stream,              \* this.stream # null
  processor,           \* this.processor # null
  source,              \* this.source # null
  inCloseCalls,        \* close() calls made on the input context object
  outCloseCalls,       \* close() calls made on the output context object
  nextStartTime,       \* this.nextStartTime
  sources,             \* this.sources (indices into handles)
  clock,               \* outputAudioContext.currentTime
  msgs,                \* inbound messages in delivery order, with their handler's position
  handles,             \* AudioBufferSourceNodes in the order source.start was called
  epoch,               \* number of interruptions handled so far
  dpc,                 \* position of each disconnect() call
  endedFrom,           \* connection state in which disconnect() was first called
  messages,            \* App: useState<ChatMessage[]>, the transcript
  resolved,            \* sessionPromise: "no", "due" (onopen has run) or "yes"
  thens,               \* blocks whose sessionPromise.then callback has not run yet
  captured,            \* number of blocks onaudioprocess has delivered
  sent                 \* the calls of sendRealtimeInput, in order, with their block

vars == <<connectionState, serviceRef, pcConnect, session, chan, closeReq,
          inputAudioContext, outputAudioContext, outputNode, stream, processor,
          source, inCloseCalls, outCloseCalls, nextStartTime, sources, clock,
          msgs, handles, epoch, dpc, endedFrom, messages, resolved, thens,
          captured, sent>>

appVars == <<connectionState, serviceRef>>
connVars == <<pcConnect, session, chan, closeReq>>
captureVars == <<stream, processor, source>>
ctxVars == <<inputAudioContext, outputAudioContext, outputNode, inCloseCalls, outCloseCalls>>
playVars == <<nextStartTime, sources, msgs, handles, epoch>>
sendVars == <<resolved, thens, captured, sent>>

Max(a, b) == IF a >= b THEN a ELSE b

(* --------------------------- audio decoding ---------------------------- *)

\* decodeToPlayableBuffer fails unless the byte length is a positive even number
DecodeOk(len) == len > 0 /\ len % 2 = 0

\* 16-bit mono PCM at the device rate: one sample per two bytes
Duration(len) == len \div 2

(* ------------------------------- Init ---------------------------------- *)

Init ==
  /\ connectionState = "DISCONNECTED"
  /\ serviceRef = FALSE
  /\ pcConnect = "idle"
  /\ session = FALSE
  /\ chan = "none"
  /\ closeReq = FALSE
  /\ inputAudioContext = FALSE
  /\ outputAudioContext = FALSE
  /\ outputNode = FALSE
  /\ stream = FALSE
  /\ processor = FALSE
  /\ source = FALSE
  /\ inCloseCalls = 0
  /\ outCloseCalls = 0
  /\ nextStartTime = 0
  /\ sources = {}
  /\ clock = 0
  /\ msgs = << >>
  /\ handles = << >>
  /\ epoch = 0
  /\ dpc = [i \in 1..MaxDisconnects |-> "idle"]
  /\ endedFrom = "none"
  /\ messages = << >>
  /\ resolved = "no"
  /\ thens = << >>
  /\ captured = 0
  /\ sent = << >>

(* --------------------- connect (App and service) ----------------------- *)

\* App.handleStartCall up to service.connect's await of getUserMedia
StartCall ==
  /\ connectionState \in {"DISCONNECTED", "ERROR"}
  /\ pcConnect = "idle"
  /\ connectionState' = "CONNECTING"
  /\ serviceRef' = TRUE
  /\ inputAudioContext' = TRUE
  /\ outputAudioContext' = TRUE
  /\ outputNode' = TRUE
  /\ pcConnect' = "awaitMic"
  /\ messages' = << >>
  /\ UNCHANGED <<session, chan, closeReq, captureVars, inCloseCalls, outCloseCalls,
                 playVars, clock, dpc, endedFrom, sendVars>>

\* getUserMedia resolves: the stream is stored, the channel is being opened
MicGranted ==
  /\ pcConnect = "awaitMic"
  /\ stream' = TRUE
  /\ chan' = "connecting"
  /\ session' = TRUE
  /\ pcConnect' = "done"
  /\ UNCHANGED <<appVars, closeReq, processor, source, ctxVars, playVars, clock, dpc, endedFrom, messages,
                 sendVars>>

\* variant of MicDenied: the channel is opened although getUserMedia rejected
MicDeniedThenOpen ==
  /\ pcConnect = "awaitMic"
  /\ pcConnect' = "rejected"
  /\ connectionState' = "ERROR"
  /\ chan' = "connecting"
  /\ session' = TRUE
  /\ UNCHANGED <<serviceRef, closeReq, captureVars, ctxVars, playVars,
                 clock, dpc, endedFrom, messages, sendVars>>

\* getUserMedia rejects: connect rethrows, handleStartCall's catch sets ERROR
MicDenied ==
  /\ pcConnect = "awaitMic"
  /\ pcConnect' = "rejected"
  /\ connectionState' = "ERROR"
  /\ UNCHANGED <<serviceRef, session, chan, closeReq, captureVars, ctxVars, playVars,
                 clock, dpc, endedFrom, messages,
                 sendVars>>

\* startInputStreaming returns early without an input context or a stream
CanStream == inputAudioContext /\ stream

\* callbacks.onopen: startInputStreaming, then onOpen(). The library resolves
\* the session promise after onopen has returned: at once (now), or after other
\* events have been handled. A close registered by disconnect() runs once the
\* session promise has resolved
OnOpen(now) ==
  /\ chan = "connecting"
  /\ source' = (source \/ CanStream)
  /\ processor' = (processor \/ CanStream)
  /\ connectionState' = "CONNECTED"
  /\ resolved' = IF now THEN "yes" ELSE "due"
  /\ chan' = IF now /\ closeReq THEN "closing" ELSE "open"
  /\ UNCHANGED <<serviceRef, pcConnect, session, closeReq, stream, ctxVars, playVars,
                 clock, dpc, endedFrom, messages, thens, captured, sent>>

\* the channel opens and the session promise resolves in the same task
ChannelOpen == OnOpen(TRUE)

\* the channel opens; the session promise resolves in a later task
ChannelOpenPending == OnOpen(FALSE)

\* variant of Flush: the callbacks run last registered first
FlushReversed(q) == [k \in 1..Len(q) |-> q[Len(q) + 1 - k]]

\* the then callbacks of a promise run in the order they were registered
Flush(q) == q

\* the sendRealtimeInput calls made for blocks q; early tells whether the block
\* was captured before the session promise had resolved
Sends(q, early) == [k \in 1..Len(q) |-> [block |-> q[k], early |-> early]]

\* the session promise resolves: the callbacks registered on it run, those of
\* onaudioprocess (sendRealtimeInput) and then that of disconnect (close)
SessionResolved ==
  /\ resolved = "due"
  /\ resolved' = "yes"
  /\ sent' = sent \o Sends(Flush(thens), TRUE)
  /\ thens' = << >>
  /\ chan' = IF closeReq /\ chan = "open" THEN "closing" ELSE chan
  /\ UNCHANGED <<appVars, pcConnect, session, closeReq, captureVars, ctxVars, playVars,
                 clock, dpc, endedFrom, messages, captured>>

\* processor.onaudioprocess for one block: the volume callback, then the send
\* is registered on the session promise and runs at once when it has resolved
Capture ==
  /\ processor
  /\ source
  /\ captured < MaxFrames
  /\ captured' = captured + 1
  /\ IF resolved = "yes"
       THEN /\ sent' = sent \o Sends(Flush(Append(thens, captured')), FALSE)
            /\ thens' = << >>
       ELSE /\ thens' = Append(thens, captured')
            /\ UNCHANGED sent
  /\ UNCHANGED <<appVars, connVars, captureVars, ctxVars, playVars, clock, dpc,
                 endedFrom, messages, resolved>>

\* callbacks.onclose
ChannelClose ==
  /\ chan \in {"open", "closing", "failed"}
  /\ chan' = "closed"
  /\ connectionState' = "DISCONNECTED"
  /\ UNCHANGED <<serviceRef, pcConnect, session, closeReq, captureVars, ctxVars,
                 playVars, clock, dpc, endedFrom, messages,
                 sendVars>>

\* callbacks.onerror
ChannelError ==
  /\ chan \in {"connecting", "open"}
  /\ chan' = "failed"
  /\ connectionState' = "ERROR"
  /\ UNCHANGED <<serviceRef, pcConnect, session, closeReq, captureVars, ctxVars,
                 playVars, clock, dpc, endedFrom, messages,
                 sendVars>>

(* ------------------------- playback scheduling ------------------------- *)

\* variant of HasAudio: the output context and node are not looked at
HasAudioData(len) == len > 0

\* the audio branch of handleServerMessage is taken
HasAudio(len) == len > 0 /\ outputAudioContext /\ outputNode

\* variant of Anchor: the cursor is not re-anchored to the device clock
AnchorNone(nst, now) == nst

\* this.nextStartTime = Math.max(this.nextStartTime, currentTime)
Anchor(nst, now) == Max(nst, now)

\* variant of StartAt: the start time is the cursor value read before the await
StartStale(i) == msgs[i].stale

\* the argument of source.start for the handler of message i
StartAt(i) == nextStartTime

\* variant of Advance: the cursor is not moved past the segment
AdvanceNone(nst, d) == nst

\* this.nextStartTime += audioBuffer.duration
Advance(nst, d) == nst + d

\* variant of StopAll: the set is cleared without stopping its handles
StopNone(hs, S) == hs

\* this.sources.forEach(src => src.stop())
StopAll(hs, S) ==
  [k \in DOMAIN hs |-> IF k \in S THEN [hs[k] EXCEPT !.st = "stopped"] ELSE hs[k]]

\* variant of InterruptCursor: the interruption leaves the cursor where it was
KeepCursor == nextStartTime

\* this.nextStartTime = 0 of the interruption block
InterruptCursor == 0

\* variant of AfterCatch: the failure leaves the handler, skipping the block
Propagates(intr) == FALSE

\* the interruption block follows the try/catch, so it runs after a caught failure
AfterCatch(intr) == intr

\* handlers whose decode is in flight when an interruption is handled
MarkCrossed(ms) ==
  [k \in DOMAIN ms |->
     IF ms[k].st = "decoding" THEN [ms[k] EXCEPT !.crossed = TRUE] ELSE ms[k]]

\* a handler that has returned: its result is kept, its locals are gone
Finish(m, result) == [m EXCEPT !.st = result, !.crossed = FALSE, !.stale = 0]

\* moment at which a handle starts to sound: a start time in the past plays at once
EffStart(h) == Max(h.start, h.at)
EffEnd(h) == EffStart(h) + h.dur

(* ------------------------------ transcript ----------------------------- *)

\* a text is a sequence of characters, each a letter or a blank
Chars == {"a", " "}

\* the texts a transcription fragment carries: empty, blank or a letter
Fragments == {<< >>} \cup {<<c>> : c \in Chars}

\* the transcription field of a message: absent (<< >>) or present with a text
Transcriptions == {<< >>} \cup {<<t>> : t \in Fragments}

IsSpace(c) == c = " "

RECURSIVE TrimStart(_)
TrimStart(t) == IF t # << >> /\ IsSpace(Head(t)) THEN TrimStart(Tail(t)) ELSE t

RECURSIVE TrimEnd(_)
TrimEnd(t) ==
  IF t # << >> /\ IsSpace(t[Len(t)]) THEN TrimEnd(SubSeq(t, 1, Len(t) - 1)) ELSE t

\* String.prototype.trim
Trim(t) == TrimEnd(TrimStart(t))

\* !text.trim()
IsBlank(t) == Trim(t) = << >>

Role(isUser) == IF isUser THEN "user" ELSE "model"

\* variant of Pending: the last message is updated whether final or not
PendingOrFinal(ms, role) == ms # << >> /\ ms[Len(ms)].role = role

\* the last message is of this role and not final
Pending(ms, role) ==
  ms # << >> /\ ms[Len(ms)].role = role /\ ~ms[Len(ms)].isFinal

\* the updater handleStartCall's onMessage callback passes to setMessages; the
\* id and the timestamp of a message are left out
AddMessage(ms, text, isUser, isFinal) ==
  IF Pending(ms, Role(isUser))
    THEN [ms EXCEPT ![Len(ms)] = [role |-> @.role, text |-> @.text \o text,
                                  isFinal |-> isFinal]]
    ELSE IF IsBlank(text)
      THEN ms
      ELSE Append(ms, [role |-> Role(isUser), text |-> text, isFinal |-> isFinal])

\* handleServerMessage, transcriptions: the input one, then the output one
Transcribe(ms, inT, outT, tc) ==
  LET a == IF inT # << >> THEN AddMessage(ms, inT[1], TRUE, tc) ELSE ms
  IN IF outT # << >> THEN AddMessage(a, outT[1], FALSE, tc) ELSE a

\* a message as delivered, with the position of its handler
Msg(len, intr, inT, outT, tc, st, stale) ==
  [len |-> len, intr |-> intr, inT |-> inT, outT |-> outT, tc |-> tc, st |-> st,
   crossed |-> FALSE, stale |-> stale]

(* ------------------------------ inbound -------------------------------- *)

\* callbacks.onmessage -> handleServerMessage up to the await of decodeAudioData,
\* or to its end when the message carries no playable audio
Deliver(len, intr, inT, outT, tc) ==
  /\ chan \in {"open", "closing"}
  /\ Len(msgs) < MaxMsgs
  /\ len > 0 \/ intr \/ inT # << >> \/ outT # << >>
  /\ messages' = Transcribe(messages, inT, outT, tc)
  /\ IF HasAudio(len)
       THEN /\ nextStartTime' = Anchor(nextStartTime, clock)
            /\ msgs' = Append(msgs, Msg(len, intr, inT, outT, tc, "decoding",
                                        nextStartTime'))
            /\ UNCHANGED <<sources, handles, epoch>>
       ELSE IF intr
         THEN /\ handles' = StopAll(handles, sources)
              /\ sources' = {}
              /\ nextStartTime' = InterruptCursor
              /\ epoch' = epoch + 1
              /\ msgs' = Append(MarkCrossed(msgs),
                                Msg(len, intr, inT, outT, tc, "skipped", 0))
         ELSE /\ msgs' = Append(msgs, Msg(len, intr, inT, outT, tc, "skipped", 0))
              /\ UNCHANGED <<nextStartTime, sources, handles, epoch>>
  /\ UNCHANGED <<appVars, connVars, captureVars, ctxVars, clock, dpc, endedFrom,
                 sendVars>>

\* a message that carries audio or an interruption signal and no transcription
Receive(len, intr) == Deliver(len, intr, << >>, << >>, FALSE)

\* a message that carries transcriptions, with or without turnComplete
ReceiveText(inT, outT, tc) == Deliver(0, FALSE, inT, outT, tc)

\* decodeAudioData resolves: createBufferSource, start, advance the cursor, add
\* to the set; then the interruption block
DecodeResolve(i) ==
  /\ i \in DOMAIN msgs
  /\ msgs[i].st = "decoding"
  /\ DecodeOk(msgs[i].len)
  /\ outputAudioContext
  /\ LET h == [msg |-> i, start |-> StartAt(i), at |-> clock,
               dur |-> Duration(msgs[i].len), st |-> "playing", ep |-> epoch,
               crossed |-> msgs[i].crossed]
         hs == Append(handles, h)
         S == sources \cup {Len(hs)}
         nst == Advance(nextStartTime, h.dur)
         ms == [msgs EXCEPT ![i] = Finish(@, "scheduled")]
     IN IF msgs[i].intr
          THEN /\ handles' = StopAll(hs, S)
               /\ sources' = {}
               /\ nextStartTime' = InterruptCursor
               /\ epoch' = epoch + 1
               /\ msgs' = MarkCrossed(ms)
          ELSE /\ handles' = hs
               /\ sources' = S
               /\ nextStartTime' = nst
               /\ msgs' = ms
               /\ UNCHANGED epoch
  /\ UNCHANGED <<appVars, connVars, captureVars, ctxVars, clock, dpc, endedFrom, messages,
                 sendVars>>

\* decodeAudioData rejects, or createBufferSource throws on a null context:
\* the catch logs; then the interruption block
DecodeReject(i) ==
  /\ i \in DOMAIN msgs
  /\ msgs[i].st = "decoding"
  /\ ~DecodeOk(msgs[i].len) \/ ~outputAudioContext
  /\ LET ms == [msgs EXCEPT ![i] = Finish(@, "failed")]
     IN IF AfterCatch(msgs[i].intr)
          THEN /\ handles' = StopAll(handles, sources)
               /\ sources' = {}
               /\ nextStartTime' = InterruptCursor
               /\ epoch' = epoch + 1
               /\ msgs' = MarkCrossed(ms)
          ELSE /\ msgs' = ms
               /\ UNCHANGED <<handles, sources, nextStartTime, epoch>>
  /\ UNCHANGED <<appVars, connVars, captureVars, ctxVars, clock, dpc, endedFrom, messages,
                 sendVars>>

\* the 'ended' listener of a source whose buffer has played to its end
Ended(k) ==
  /\ k \in DOMAIN handles
  /\ handles[k].st = "playing"
  /\ clock >= EffEnd(handles[k])
  /\ handles' = [handles EXCEPT ![k].st = "ended"]
  /\ sources' = sources \ {k}
  /\ UNCHANGED <<appVars, connVars, captureVars, ctxVars, nextStartTime, msgs, epoch,
                 clock, dpc, endedFrom, messages,
                 sendVars>>

\* the output device's clock advances while its context is not closed
Tick ==
  /\ outputNode
  /\ outCloseCalls = 0
  /\ clock < MaxClock
  /\ clock' = clock + 1
  /\ UNCHANGED <<appVars, connVars, captureVars, ctxVars, playVars, dpc, endedFrom, messages,
                 sendVars>>

(* --------------------- disconnect (App and service) -------------------- *)

\* step 5 of disconnect, then the rest of handleEndCall
DiscCleanup(i) ==
  /\ handles' = StopAll(handles, sources)
  /\ sources' = {}
  /\ nextStartTime' = 0
  /\ dpc' = [dpc EXCEPT ![i] = "done"]
  /\ serviceRef' = FALSE
  /\ connectionState' = "DISCONNECTED"

\* step 4, output context: close() on a context that is already closed rejects
DiscOut(i) ==
  IF outputAudioContext
    THEN /\ outCloseCalls' = outCloseCalls + 1
         /\ dpc' = [dpc EXCEPT ![i] = IF outCloseCalls > 0 THEN "rejected" ELSE "awaitOut"]
         /\ UNCHANGED <<handles, sources, nextStartTime, serviceRef, connectionState>>
    ELSE /\ DiscCleanup(i)
         /\ UNCHANGED outCloseCalls

\* App.handleEndCall -> service.disconnect up to its first await
HandleEndCall(i) ==
  /\ connectionState \in {"CONNECTING", "CONNECTED"}
  /\ dpc[i] = "idle"
  /\ \A j \in 1..(i - 1) : dpc[j] # "idle"
  /\ IF ~serviceRef
       THEN /\ connectionState' = "DISCONNECTED"
            /\ dpc' = [dpc EXCEPT ![i] = "noservice"]
            /\ UNCHANGED <<serviceRef, chan, closeReq, captureVars, ctxVars,
                           nextStartTime, sources, handles, endedFrom>>
       ELSE /\ endedFrom' = IF endedFrom = "none" THEN connectionState ELSE endedFrom
            /\ closeReq' = (closeReq \/ session)
            /\ chan' = IF session /\ resolved = "yes" /\ chan = "open"
                         THEN "closing" ELSE chan
            /\ processor' = FALSE
            /\ source' = FALSE
            /\ stream' = FALSE
            /\ UNCHANGED <<inputAudioContext, outputAudioContext, outputNode>>
            /\ IF inputAudioContext
                 THEN /\ inCloseCalls' = inCloseCalls + 1
                      /\ dpc' = [dpc EXCEPT ![i] =
                                   IF inCloseCalls > 0 THEN "rejected" ELSE "awaitIn"]
                      /\ UNCHANGED <<outCloseCalls, handles, sources, nextStartTime,
                                     serviceRef, connectionState>>
                 ELSE /\ DiscOut(i)
                      /\ UNCHANGED inCloseCalls
  /\ UNCHANGED <<pcConnect, session, msgs, epoch, clock, messages, sendVars>>

\* inputAudioContext.close() resolves
CloseInResolved(i) ==
  /\ dpc[i] = "awaitIn"
  /\ inputAudioContext' = FALSE
  /\ DiscOut(i)
  /\ UNCHANGED <<connVars, captureVars, outputAudioContext, outputNode, inCloseCalls,
                 msgs, epoch, clock, endedFrom, messages,
                 sendVars>>

\* outputAudioContext.close() resolves
CloseOutResolved(i) ==
  /\ dpc[i] = "awaitOut"
  /\ outputAudioContext' = FALSE
  /\ DiscCleanup(i)
  /\ UNCHANGED <<connVars, captureVars, inputAudioContext, outputNode, inCloseCalls,
                 outCloseCalls, msgs, epoch, clock, endedFrom, messages,
                 sendVars>>

(* ------------------------------- Next ---------------------------------- *)

Next ==
  \/ StartCall
  \/ MicGranted
  \/ MicDenied
  \/ ChannelOpen
  \/ ChannelClose
  \/ ChannelError
  \/ \E len \in AudioLens, intr \in BOOLEAN : Receive(len, intr)
  \/ \E i \in 1..MaxMsgs : DecodeResolve(i)
  \/ \E i \in 1..MaxMsgs : DecodeReject(i)
  \/ \E k \in 1..MaxMsgs : Ended(k)
  \/ Tick
  \/ \E i \in 1..MaxDisconnects : HandleEndCall(i)
  \/ \E i \in 1..MaxDisconnects : CloseInResolved(i)
  \/ \E i \in 1..MaxDisconnects : CloseOutResolved(i)

Spec == Init /\ [][Next]_vars

\* a call that stays up: the microphone is granted, the channel opens and
\* neither fails nor closes, and the user does not hang up
NextCall ==
  \/ StartCall
  \/ MicGranted
  \/ ChannelOpen
  \/ \E len \in AudioLens, intr \in BOOLEAN : Receive(len, intr)
  \/ \E i \in 1..MaxMsgs : DecodeResolve(i)
  \/ \E i \in 1..MaxMsgs : DecodeReject(i)
  \/ \E k \in 1..MaxMsgs : Ended(k)
  \/ Tick

SpecCall == Init /\ [][NextCall]_vars

\* a call that stays up, followed for its transcript
NextTranscript ==
  \/ StartCall
  \/ MicGranted
  \/ ChannelOpen
  \/ \E inT \in Transcriptions, outT \in Transcriptions, tc \in BOOLEAN :
       ReceiveText(inT, outT, tc)

SpecTranscript == Init /\ [][NextTranscript]_vars

\* the life of a session, followed for the blocks it captures and sends
NextCapture ==
  \/ StartCall
  \/ MicGranted
  \/ MicDenied
  \/ ChannelOpen
  \/ ChannelOpenPending
  \/ SessionResolved
  \/ Capture
  \/ ChannelClose
  \/ ChannelError
  \/ \E i \in 1..MaxDisconnects : HandleEndCall(i)
  \/ \E i \in 1..MaxDisconnects : CloseInResolved(i)
  \/ \E i \in 1..MaxDisconnects : CloseOutResolved(i)

SpecCapture == Init /\ [][NextCapture]_vars

TypeOK ==
  /\ connectionState \in {"DISCONNECTED", "CONNECTING", "CONNECTED", "ERROR"}
  /\ pcConnect \in {"idle", "awaitMic", "done", "rejected"}
  /\ chan \in {"none", "connecting", "open", "closing", "failed", "closed"}
  /\ nextStartTime \in Nat
  /\ clock \in 0..MaxClock
  /\ sources \subseteq DOMAIN handles
  /\ Len(msgs) <= MaxMsgs
  /\ resolved \in {"no", "due", "yes"}
  /\ captured \in 0..MaxFrames
  /\ Len(messages) <= 2 * MaxMsgs

(* ============================ properties =============================== *)

\* handles k and k+1 were started with no interruption handled in between
SameRun(k) == k + 1 \in DOMAIN handles /\ handles[k + 1].ep = handles[k].ep

\* handle k is the first one started after an interruption
FirstSinceReset(k) ==
  /\ handles[k].ep > 0
  /\ \A j \in 1..(k - 1) : handles[j].ep < handles[k].ep

\* this step is the entry of the handler of message i, which carries audio
ReceiveStep(i) ==
  /\ i = Len(msgs) + 1
  /\ i = Len(msgs')
  /\ msgs'[i].st = "decoding"

\* this step is the catch of the handler of message i
RejectStep(i) ==
  /\ i \in DOMAIN msgs
  /\ msgs[i].st = "decoding"
  /\ msgs'[i].st = "failed"

\* this step handles an interruption signal
InterruptStep == epoch' = epoch + 1

\* C1: the play intervals of two segments started one after the other with no
\* interruption in between never overlap: the later one does not begin to
\* sound before the earlier one has ended
C1_NoOverlap ==
  \A k \in DOMAIN handles :
    SameRun(k) => EffStart(handles[k + 1]) >= EffEnd(handles[k])

\* C2: for segments started one after the other with no interruption in
\* between, the start times passed to the device satisfy
\* start(i+1) >= start(i) + d(i)
C2_MonotonicStarts ==
  \A k \in DOMAIN handles :
    SameRun(k) => handles[k + 1].start >= handles[k].start + handles[k].dur

\* C2 witness: two segments of one run were started, the second message's
\* segment first, so both decodes were awaited at the same time
C2_Witness ==
  /\ Len(handles) >= 2
  /\ SameRun(1)
  /\ handles[1].msg > handles[2].msg
  /\ handles[2].start = handles[1].start + handles[1].dur

\* C3: segments are started in the order their messages were received
C3_ReceiptOrder ==
  \A j, k \in DOMAIN handles : j < k => handles[j].msg < handles[k].msg

\* C4: the step that handles an interruption leaves the active set empty with
\* every handle that was in it stopped, and the first segment started after an
\* interruption starts at the device clock's current time
C4_InterruptClears ==
  /\ [][InterruptStep =>
          /\ sources' = {}
          /\ \A k \in DOMAIN handles' :
               (k \in sources \/ k \notin DOMAIN handles) => handles'[k].st = "stopped"]_vars
  /\ [](\A k \in DOMAIN handles :
          FirstSinceReset(k) =>
            /\ handles[k].start <= handles[k].at
            /\ EffStart(handles[k]) = handles[k].at)

\* C4 witness: an interruption stopped a handle whose end lay in the future, and
\* the next segment started at the clock, before that stale cursor
C4_Witness ==
  \E j, k \in DOMAIN handles :
    /\ j < k
    /\ FirstSinceReset(k)
    /\ ~handles[k].crossed
    /\ handles[j].st = "stopped"
    /\ handles[j].start + handles[j].dur > handles[k].at
    /\ EffStart(handles[k]) = handles[k].at

\* C5: every handle that was started and has neither ended nor been stopped is
\* in the active set
C5_NoOrphan ==
  \A k \in DOMAIN handles : handles[k].st = "playing" => k \in sources

\* C5 witness: a segment whose decode was in flight during an interruption is
\* playing, after the interruption stopped an earlier one
C5_Witness ==
  \E j, k \in DOMAIN handles :
    /\ j < k
    /\ handles[j].st = "stopped"
    /\ handles[k].crossed
    /\ handles[k].st = "playing"
    /\ k \in sources

C7_CursorAheadOfClock ==
  chan = "open" => nextStartTime >= clock

\* C7 amended: right after the entry of the handler of a message carrying
\* audio, the cursor is at or beyond the device clock
C7_AnchoredOnReceive ==
  [][\A i \in DOMAIN msgs' : ReceiveStep(i) => nextStartTime' >= clock']_vars

\* C7 witness: the first audio message arrived after the clock had advanced,
\* and the cursor was moved up to the clock
C7_Witness ==
  /\ clock > 0
  /\ handles = << >>
  /\ epoch = 0
  /\ Len(msgs) = 1
  /\ msgs[1].st = "decoding"
  /\ nextStartTime = clock

\* C8: no step of the handling of a message whose decode fails, and which
\* carries no interruption signal, changes the cursor or the active set
C8_FailedDecodeLeavesState ==
  [][\A i \in DOMAIN msgs' :
       ((ReceiveStep(i) \/ RejectStep(i)) /\ ~DecodeOk(msgs'[i].len) /\ ~msgs'[i].intr)
         => (nextStartTime' = nextStartTime /\ sources' = sources)]_vars

\* C9: a failed decode is caught: the step leaves the connection state and the
\* channel as they were and still applies the interruption signal of its
\* message; and a well-formed audio message fails only once the output context
\* has been released, never because of an earlier failure
C9_FailureIsLocal ==
  /\ [][\A i \in DOMAIN msgs :
          RejectStep(i) =>
            /\ connectionState' = connectionState
            /\ chan' = chan
            /\ msgs[i].intr =>
                 /\ sources' = {}
                 /\ nextStartTime' = 0
                 /\ \A k \in sources : handles'[k].st = "stopped"]_vars
  /\ [](\A i \in DOMAIN msgs :
          (msgs[i].st = "failed" /\ DecodeOk(msgs[i].len)) => ~outputAudioContext)

\* C9 witness: a malformed message carrying an interruption signal failed and
\* stopped the playing segment, a later message was scheduled, the call is up
C9_Witness ==
  \E i, j \in DOMAIN msgs :
    /\ i < j
    /\ msgs[i].st = "failed"
    /\ ~DecodeOk(msgs[i].len)
    /\ msgs[i].intr
    /\ msgs[j].st = "scheduled"
    /\ \E k \in DOMAIN handles : handles[k].msg < i /\ handles[k].st = "stopped"
    /\ connectionState = "CONNECTED"
    /\ chan = "open"

\* every resource of the service is released
Released ==
  /\ ~processor
  /\ ~source
  /\ ~stream
  /\ ~inputAudioContext
  /\ ~outputAudioContext
  /\ sources = {}
  /\ nextStartTime = 0

\* a disconnect() call that has settled
Settled(i) == dpc[i] \in {"done", "rejected"}

\* C10: once two disconnect() calls on a connected session have settled, none
\* has failed, everything is released and each context was closed once
C10_DisconnectTwice ==
  (endedFrom = "CONNECTED" /\ Settled(1) /\ Settled(2)) =>
    /\ dpc[1] = "done"
    /\ dpc[2] = "done"
    /\ Released
    /\ inCloseCalls = 1
    /\ outCloseCalls = 1

\* connect() and every disconnect() call issued have run to their end, the
\* first disconnect() having been called before onOpen and having completed
SettledEarlyDisconnect ==
  /\ endedFrom = "CONNECTING"
  /\ pcConnect \in {"done", "rejected"}
  /\ dpc[1] = "done"
  /\ \A i \in 1..MaxDisconnects : dpc[i] \in {"idle", "done", "noservice"}

\* C11: when disconnect() was called before connect() had completed, then once
\* both have run to their end the session holds no microphone stream, its
\* channel is neither open nor about to open, the capture pipeline is not
\* running and onOpen has not been invoked since
C11_EarlyDisconnectReleases ==
  SettledEarlyDisconnect =>
    /\ ~stream
    /\ chan \notin {"connecting", "open"}
    /\ ~processor /\ ~source
    /\ connectionState # "CONNECTED"

\* the changes of connectionState the life of a call is made of: start, open,
\* close or hang-up, failure, and the start of a new call after an end or a
\* failure
CallTransitions ==
  {<<"DISCONNECTED", "CONNECTING">>, <<"CONNECTING", "CONNECTED">>,
   <<"CONNECTED", "DISCONNECTED">>, <<"CONNECTING", "DISCONNECTED">>,
   <<"CONNECTING", "ERROR">>, <<"CONNECTED", "ERROR">>,
   <<"ERROR", "CONNECTING">>}

\* C12: connectionState only changes along the transitions of a call's life;
\* once it is ERROR or DISCONNECTED no callback of the call moves it, only the
\* start of a new call does (hanging up while CONNECTING is counted as allowed)
C12_StateTransitions ==
  [][connectionState' # connectionState =>
       <<connectionState, connectionState'>> \in CallTransitions]_vars

\* the session has failed as a whole: the microphone was denied during
\* connect(), or the channel reported an error
SessionFailed == pcConnect = "rejected" \/ chan = "failed"

\* the session holds no audio context, no microphone stream, no capture
\* pipeline and no active playback handle
TornDown ==
  /\ ~inputAudioContext /\ ~outputAudioContext
  /\ ~stream
  /\ ~processor /\ ~source
  /\ sources = {}

\* some handler or callback of the session can still run (the clock aside)
CanStillAct == ENABLED (Next /\ clock' = clock)

\* C13: after a session-wide failure the session is torn down: when nothing is
\* left to run, it holds no audio contexts, no microphone stream, no running
\* capture pipeline and no active playback handles
C13_FailureTearsDown == (SessionFailed /\ ~CanStillAct) => TornDown

\* C14: whenever connectionState is DISCONNECTED, also after a close by the
\* remote side, the session is not capturing the microphone and holds no
\* audio device: no stream, no capture pipeline, no audio context
C14_DisconnectedHoldsNothing ==
  connectionState = "DISCONNECTED" =>
    /\ ~stream
    /\ ~processor /\ ~source
    /\ ~inputAudioContext /\ ~outputAudioContext

\* the transcription fragments of the messages delivered so far, in the order
\* handleServerMessage passes them to onMessage
RECURSIVE FragmentsOf(_)
FragmentsOf(ms) ==
  IF ms = << >> THEN << >>
  ELSE LET m == ms[Len(ms)]
           i == IF m.inT # << >>
                  THEN <<[role |-> "user", text |-> m.inT[1], isFinal |-> m.tc]>>
                  ELSE << >>
           o == IF m.outT # << >>
                  THEN <<[role |-> "model", text |-> m.outT[1], isFinal |-> m.tc]>>
                  ELSE << >>
       IN FragmentsOf(SubSeq(ms, 1, Len(ms) - 1)) \o i \o o

\* the utterances of one speaker as accumulation defines them: the speaker's
\* fragments are concatenated in arrival order until one is final, and the
\* fragment after a final one starts a new utterance
RECURSIVE Accumulated(_, _)
Accumulated(fs, role) ==
  IF fs = << >> THEN << >>
  ELSE LET prev == Accumulated(SubSeq(fs, 1, Len(fs) - 1), role)
           f == fs[Len(fs)]
       IN IF f.role # role THEN prev
          ELSE IF prev # << >> /\ ~prev[Len(prev)].isFinal
            THEN [prev EXCEPT ![Len(prev)] =
                    [text |-> @.text \o f.text, isFinal |-> f.isFinal]]
            ELSE Append(prev, [text |-> f.text, isFinal |-> f.isFinal])

\* the utterances of one speaker in the transcript
RECURSIVE Shown(_, _)
Shown(ms, role) ==
  IF ms = << >> THEN << >>
  ELSE LET prev == Shown(SubSeq(ms, 1, Len(ms) - 1), role)
           m == ms[Len(ms)]
       IN IF m.role # role THEN prev
          ELSE Append(prev, [text |-> m.text, isFinal |-> m.isFinal])

\* utterances compared up to surrounding white space, those without any
\* visible text left out
RECURSIVE Visible(_)
Visible(us) ==
  IF us = << >> THEN << >>
  ELSE LET prev == Visible(SubSeq(us, 1, Len(us) - 1))
           u == us[Len(us)]
       IN IF Trim(u.text) = << >> THEN prev
          ELSE Append(prev, [text |-> Trim(u.text), isFinal |-> u.isFinal])

\* C15: for any sequence of fragments, the transcript holds for each speaker
\* the utterances obtained by concatenating that speaker's fragments in
\* arrival order until a final one arrives, the next fragment starting a new
\* utterance (texts compared up to surrounding white space)
C15_Accumulation ==
  \A role \in {"user", "model"} :
    Visible(Shown(messages, role)) = Visible(Accumulated(FragmentsOf(msgs), role))

\* the blocks captured so far, in capture order
CapturedBlocks == [k \in 1..captured |-> k]

\* the blocks for which sendRealtimeInput has been called, in call order
SentBlocks == [k \in 1..Len(sent) |-> sent[k].block]

\* C16: every captured block is sent exactly once and in capture order, also
\* the blocks captured before the session promise resolved: the sends made so
\* far followed by the sends still waiting for the promise are the captured
\* blocks in capture order, and none waits once the promise has resolved
C16_SendsInCaptureOrder ==
  /\ SentBlocks \o thens = CapturedBlocks
  /\ resolved = "yes" => thens = << >>

\* block 1 was captured before the session promise resolved, block 2 after it,
\* and both have been sent
C16_Witness ==
  /\ Len(sent) = 2
  /\ sent[1].early
  /\ ~sent[2].early

\* after the microphone was denied: the channel was never opened (so none of
\* onOpen, onClose, onError has run), no stream or capture pipeline exists, no
\* block was captured (onVolume) and no message delivered (onTranscript)
NothingStarted ==
  /\ chan = "none" /\ ~session /\ resolved = "no"
  /\ ~stream /\ ~processor /\ ~source
  /\ captured = 0 /\ sent = << >>
  /\ msgs = << >> /\ messages = << >>

\* C17: when microphone access is denied, connect() rejects and is not
\* retried: the channel is never opened, capture never starts, no callback of
\* the session is invoked, and the rejection sets connectionState to ERROR
C17_MicDenied ==
  /\ [](pcConnect = "rejected" => NothingStarted)
  /\ [][pcConnect = "rejected" => pcConnect' = "rejected"]_vars
  /\ [][pcConnect # "rejected" /\ pcConnect' = "rejected" =>
          connectionState' = "ERROR"]_vars

\* the microphone was denied and the App shows the error
C17_Witness == pcConnect = "rejected" /\ connectionState = "ERROR"

\* some disconnect() call has completed
DisconnectCompleted == \E i \in 1..MaxDisconnects : dpc[i] = "done"

\* C18: once a disconnect() call has completed, the set of active handles is
\* empty and nextStartTime is 0, and they stay so: neither a message delivered
\* afterwards nor a decode that was in flight adds a handle or starts audio
C18_QuietAfterDisconnect ==
  /\ [](DisconnectCompleted =>
          /\ sources = {}
          /\ nextStartTime = 0
          /\ \A k \in DOMAIN handles : handles[k].st # "playing")
  /\ [][DisconnectCompleted => handles' = handles]_vars

\* disconnect() has completed; a decode that was in flight has since come
\* back, and a message carrying audio was delivered after the contexts were
\* closed
C18_Witness ==
  /\ DisconnectCompleted
  /\ \E i \in DOMAIN msgs : msgs[i].st = "failed" /\ DecodeOk(msgs[i].len)
  /\ \E j \in DOMAIN msgs : msgs[j].st = "skipped" /\ msgs[j].len > 0

\* this step is taken by the handler of message i: its entry or its resumption
\* after the await of decodeAudioData
HandlerStep(i) ==
  \/ i = Len(msgs) + 1 /\ i = Len(msgs')
  \/ i \in DOMAIN msgs /\ msgs[i].st = "decoding" /\ msgs'[i].st # "decoding"

\* C19: an interruption only stops audio received up to and including its own
\* message: when the handler of message i applies its interruption, no active
\* handle of a message delivered after i is stopped or removed from the set
C19_InterruptSparesLater ==
  [][\A i \in DOMAIN msgs' :
       (InterruptStep /\ HandlerStep(i)) =>
         \A k \in sources :
           handles[k].msg > i => (k \in sources' /\ handles'[k].st = handles[k].st)]_vars

\* text s is the beginning of text t
IsPrefix(s, t) == Len(s) <= Len(t) /\ SubSeq(t, 1, Len(s)) = s

\* the text has a character that is not white space
HasVisibleText(t) == \E k \in DOMAIN t : t[k] # " "

\* C20: in the transcript of a call a final utterance is never modified again,
\* the list never shrinks or reorders (an utterance keeps its place and its
\* speaker, its text only grows at the end), and no utterance with empty or
\* white-space-only text is ever created
C20_TranscriptStable ==
  /\ [][/\ Len(messages') >= Len(messages)
        /\ \A k \in DOMAIN messages :
             /\ messages'[k].role = messages[k].role
             /\ IsPrefix(messages[k].text, messages'[k].text)
             /\ messages[k].isFinal => messages'[k] = messages[k]]_vars
  /\ [](\A k \in DOMAIN messages : HasVisibleText(messages[k].text))

\* a final utterance built from two fragments is followed by a later utterance
\* of the same speaker, and a blank fragment has been delivered
C20_Witness ==
  /\ Len(messages) >= 2
  /\ messages[1].isFinal /\ Len(messages[1].text) >= 2
  /\ messages[2].role = messages[1].role
  /\ \E i \in DOMAIN msgs : msgs[i].inT = << <<" ">> >> \/ msgs[i].outT = << <<" ">> >>

====
